---- MODULE Spec2Model ----
(***************************************************************************)
(* lmwhisper: the conversation history (core/conversation.py), the audio   *)
(* sources (core/audio.py), the local transcription front end              *)
(* (core/transcription.py), the transcript logger (core/persistence.py)    *)
(* and the chat command that runs them in sequence (ui/cli.py), as state   *)
(* machines.                                                               *)
(*                                                                         *)
(* Python objects are references: `heap` holds the Message objects in      *)
(* allocation order and every list or tuple of messages is a sequence of   *)
(* indices into it.  0 stands for None.                                    *)
(***************************************************************************)
EXTENDS Integers, Sequences, FiniteSets, TLC

\* ---------------------------------------------------------------- bounds
MaxMsgs == 3        \* Message objects allocated in one run
MaxLen == 3         \* bytes in a static audio buffer
MaxChunk == 2       \* largest chunk size tried
MaxFileGens == 2    \* generator objects created on a static-buffer source
MaxMicGens == 1     \* generator objects created on a microphone source
MaxReads == 2       \* device reads per run
MaxHandles == 2     \* driver/stream handles allocated per run
MaxPcm == 3         \* PCM bytes in a buffer handed to transcribe()
MaxTurns == 2       \* turns handed to one TomlLogger.write call

None == 0

\* ------------------------------------------------------------- variables
VARIABLES
  \* conversation.py
  heap,          \* Message objects, by reference (index)
  messages,      \* ConversationManager.messages: references, in order
  sysPrompt,     \* GenerationConfig.system_prompt ("" stands for None or "")
  snapshot,      \* the tuple the last history() call returned
  lastPayload,   \* payload["messages"] of the last request sent
  conv,          \* observation: the last manager call, and the call before it
                 \* when that was add_user_message
  \* audio.py
  srcKind,       \* "mic" (PyAudioMicrophone) or "file" (FileAudioStream)
  installed,     \* whether `import pyaudio` succeeds
  format,        \* AudioConfig.format
  data,          \* FileAudioStream._data
  chunkSize,     \* AudioConfig.chunk_size
  mic,           \* PyAudioMicrophone: _pyaudio and _stream (a handle, or
                 \* None), and the driver's side: the instances and streams
                 \* allocated and not yet released, the handles given out
  gens,          \* generator objects returned by chunks()
  reads,         \* device reads attempted so far
  audio,         \* observation of the last source calls
  region,        \* the `with source:` block
  \* transcription.py
  trInput,       \* the chunks handed to transcribe()
  tr,            \* what the transcribe() call did
  \* persistence.py
  files,         \* the log directory: what each file holds
  logged,        \* observation: the last TomlLogger.write call
  \* cli.py
  chat           \* one run of the chat command: its options, where control
                 \* is, what it collected and how it ended

convVars == <<heap, messages, sysPrompt, snapshot, lastPayload, conv>>
audioVars == <<srcKind, installed, format, data, chunkSize, mic, gens, reads,
               audio, region>>
trVars == <<trInput, tr>>
logVars == <<files, logged>>
vars == <<convVars, audioVars, trVars, logVars, chat>>
otherThanConv == <<audioVars, trVars, logVars, chat>>
otherThanAudio == <<convVars, trVars, logVars, chat>>
otherThanTr == <<convVars, audioVars, logVars, chat>>
otherThanLog == <<convVars, audioVars, trVars, chat>>

\* =========================================================== core/audio.py

Formats == {"int16", "float32", "int8"}
\* format_map
SupportedFormats == {"int16", "float32"}
Bytes == {0, 1}
ExitPaths == {"normal", "early_stop", "failure"}

\* PyAudioMicrophone.__init__
Unopened ==
  [pa |-> None, stream |-> None, allocPA |-> {}, allocStreams |-> {}, handles |-> 0]

NoSourceCall == [op |-> "none", err |-> "none", afterClose |-> FALSE, openCalled |-> FALSE]
\* The `with` block: where control is, how the block was left, whether
\* __exit__ called close(), and the handles the source held on entry (while
\* inside) or when the block was left (once exited).
Outside == [pc |-> "outside", path |-> "none", closed |-> FALSE,
            pa |-> None, stream |-> None]

\* The conversation specifications leave the audio side at rest.
AudioIdle ==
  /\ srcKind = "none"
  /\ installed = FALSE
  /\ format = "int16"
  /\ data = <<>>
  /\ chunkSize = 1
  /\ mic = Unopened
  /\ gens = <<>>
  /\ reads = 0
  /\ audio = NoSourceCall
  /\ region = Outside

\* ==================================================== core/transcription.py

\* A buffer is a sequence of tokens: a PCM byte, or, standing for all the bytes
\* of a RIFF container up to its sample data, one header token carrying what
\* the wave module reads from them.
PcmByte == [riff |-> FALSE, ok |-> TRUE, bits |-> 0, rate |-> 0]
Header(ok, bits, rate) == [riff |-> TRUE, ok |-> ok, bits |-> bits, rate |-> rate]

\* What a transcribe() call did: how it ended, the TranscriptResult returned,
\* the sample rate it took the samples to have, whether it resampled them, how
\* often it called the engine and the rate of the audio it handed over.
NotCalled == [status |-> "idle", err |-> "none", text |-> "", segments |-> <<>>,
              language |-> "none", engineCalls |-> 0, resampled |-> FALSE,
              sourceRate |-> 0, engineRate |-> 0, hint |-> "none"]

\* The transcription variables at rest.
TrIdle ==
  /\ trInput = <<>>
  /\ tr = NotCalled

\* ====================================================== core/persistence.py

Ids == {"c1", "c2"}

\* TomlLogger._file_path: directory / f"{conversation_id}.toml"
FilePath(id) == [dir |-> "directory", name |-> <<id, ".toml">>]
Paths == {FilePath(id) : id \in Ids}

\* What a path of the directory holds: nothing, a whole document, or the
\* leading part of one (the entries written before the writer stopped).
NoFile == [kind |-> "absent", id |-> "", metadata |-> "empty", messages |-> <<>>]

NoWrite == [op |-> "none", id |-> "", system |-> <<>>, turns |-> <<>>,
            metadata |-> "empty", err |-> "none", ret |-> None,
            prior |-> "absent"]

\* The directory as TomlLoggerConfig.__post_init__ leaves a new one.
LogInit ==
  /\ files = [p \in Paths |-> NoFile]
  /\ logged = NoWrite

\* ================================================================ ui/cli.py

\* chat has not been invoked.  caller: chat itself, or code that calls
\* _collect_audio on a source of its own; duration: the --duration option, in
\* milliseconds; limit: required_chunks (None: no limit); chunks: the chunks
\* collected; steps: the pipeline steps started, in order; code: the exit
\* status (None while running); err: the exception that ended the run.
NoRun ==
  [pc |-> "idle", caller |-> "chat", duration |-> 0, bounded |-> TRUE,
   fileLen |-> 0, convId |-> "", limit |-> None, chunks |-> 0,
   steps |-> <<>>, openAtTranscribe |-> FALSE, text |-> "",
   language |-> "none", code |-> None, err |-> "none"]

ChatIdle == chat = NoRun

\* ===================================================== core/conversation.py

Contents == {"a", "b"}
Prompts == {"", "sys"}
Metadata == {"empty", "transcript"}
\* The role field of choices[0].message as the chat-completions protocol
\* sends it: "assistant", or no role field at all.
Absent == "absent"
ReplyRoles == {"assistant", Absent}
ReplyContents == {"r", Absent}
Usages == {Absent, "usage"}
Outcomes == {"ok", "transport_error", "non_2xx"}

\* Message(role, content, metadata)
Message(role, content, metadata) ==
  [role |-> role, content |-> content, metadata |-> metadata]

\* dict.get(key, default)
Get(field, default) == IF field = Absent THEN default ELSE field

\* [{"role": msg.role, "content": msg.content} for msg in messages]
RoleContent(msgs) ==
  [i \in 1..Len(msgs) |-> [role |-> heap[msgs[i]].role,
                           content |-> heap[msgs[i]].content]]

\* LMStudioClient.generate, up to the request: the serialized list, with the
\* system prompt inserted at position 0 when one is configured.
Payload(msgs, prompt) ==
  IF prompt # ""
  THEN <<[role |-> "system", content |-> prompt]>> \o RoleContent(msgs)
  ELSE RoleContent(msgs)

\* LMStudioClient.generate, after a 2xx response: the assistant Message.
ReplyMessage(role, content, usage) ==
  Message(Get(role, "assistant"), Get(content, ""),
          IF usage = Absent THEN "empty" ELSE usage)

\* The messages themselves (what a reader of history() sees).
Values(refs) == [i \in 1..Len(refs) |-> heap[refs[i]]]

NoCall == [op |-> "none", arg |-> "", before |-> <<>>, ret |-> None, err |-> "none"]
Observe(op, arg, ret, err) ==
  [last |-> [op |-> op, arg |-> arg, before |-> messages, ret |-> ret, err |-> err],
   prev |-> IF conv.last.op = "add_user_message" THEN conv.last ELSE NoCall]

ConvInit ==
  /\ heap = <<>>
  /\ messages = <<>>
  /\ sysPrompt \in Prompts
  /\ snapshot = <<>>
  /\ lastPayload = <<>>
  /\ conv = [last |-> NoCall, prev |-> NoCall]

\* ConversationManager.add_user_message(content, metadata=...)
AddUserMessage(content, metadata) ==
  /\ Len(heap) < MaxMsgs
  /\ heap' = Append(heap, Message("user", content, metadata))
  /\ messages' = Append(messages, Len(heap) + 1)
  /\ conv' = Observe("add_user_message", content, Len(heap) + 1, "none")
  /\ UNCHANGED <<sysPrompt, snapshot, lastPayload>>
  /\ UNCHANGED otherThanConv

\* ConversationManager.add_system_message(content)
AddSystemMessage(content) ==
  /\ Len(heap) < MaxMsgs
  /\ heap' = Append(heap, Message("system", content, "empty"))
  /\ messages' = Append(messages, Len(heap) + 1)
  /\ conv' = Observe("add_system_message", content, Len(heap) + 1, "none")
  /\ UNCHANGED <<sysPrompt, snapshot, lastPayload>>
  /\ UNCHANGED otherThanConv

\* Mutants of AppendReply: the reply put in front; the reply overwriting the tail.
AppendReplyInFront(msgs, ref) == <<ref>> \o msgs
AppendReplyOverTail(msgs, ref) ==
  IF msgs = <<>> THEN <<ref>> ELSE [msgs EXCEPT ![Len(msgs)] = ref]

\* What generate_reply does with the list once generate has returned.
AppendReply(msgs, ref) == Append(msgs, ref)

\* Mutant of AfterFailure: the pending user message rolled back.
AfterFailureRolledBack(msgs) ==
  IF msgs = <<>> THEN msgs ELSE SubSeq(msgs, 1, Len(msgs) - 1)

\* What generate_reply leaves in the list when generate raises.
AfterFailure(msgs) == msgs

\* ConversationManager.generate_reply(), the request succeeding.
GenerateReplyOk(role, content, usage) ==
  /\ Len(heap) < MaxMsgs
  /\ lastPayload' = Payload(messages, sysPrompt)
  /\ heap' = Append(heap, ReplyMessage(role, content, usage))
  /\ messages' = AppendReply(messages, Len(heap) + 1)
  /\ conv' = Observe("generate_reply", "", Len(heap) + 1, "none")
  /\ UNCHANGED <<sysPrompt, snapshot>>
  /\ UNCHANGED otherThanConv

\* ConversationManager.generate_reply(), post() or raise_for_status() raising.
GenerateReplyFails(outcome) ==
  /\ outcome # "ok"
  /\ lastPayload' = Payload(messages, sysPrompt)
  /\ messages' = AfterFailure(messages)
  /\ conv' = Observe("generate_reply", outcome, None, "CompletionFailed")
  /\ UNCHANGED <<heap, sysPrompt, snapshot>>
  /\ UNCHANGED otherThanConv

\* ConversationManager.history()
History ==
  /\ snapshot' = messages
  /\ conv' = Observe("history", "", None, "none")
  /\ UNCHANGED <<heap, messages, sysPrompt, lastPayload>>
  /\ UNCHANGED otherThanConv

\* Message is a dataclass that is not frozen: a holder of a reference may
\* assign its fields.  Here the holder reached it through the tuple that
\* history() returned.
AssignThroughSnapshot(i, content) ==
  /\ i \in 1..Len(snapshot)
  /\ heap[snapshot[i]].content # content
  /\ heap' = [heap EXCEPT ![snapshot[i]].content = content]
  /\ conv' = Observe("assign", content, snapshot[i], "none")
  /\ UNCHANGED <<messages, sysPrompt, snapshot, lastPayload>>
  /\ UNCHANGED otherThanConv

ConvNext ==
  \/ \E c \in Contents, m \in Metadata : AddUserMessage(c, m)
  \/ \E c \in Prompts \ {""} : AddSystemMessage(c)
  \/ \E r \in ReplyRoles, c \in ReplyContents, u \in Usages : GenerateReplyOk(r, c, u)
  \/ \E o \in Outcomes : GenerateReplyFails(o)
  \/ History

\* The manager's calls, and a caller that keeps what history() returned.
ConvCallerNext ==
  \/ ConvNext
  \/ \E i \in 1..MaxMsgs : AssignThroughSnapshot(i, "edited")

\* ------------------------------------------------ conversation: properties

IsPrefix(s, t) == Len(s) <= Len(t) /\ \A i \in 1..Len(s) : s[i] = t[i]

AfterUserThenReply ==
  /\ conv.last.op = "generate_reply"
  /\ conv.last.err = "none"
  /\ conv.prev.op = "add_user_message"

\* C1: add_user_message(text) followed by a successful generate_reply() leaves
\* the history with exactly two more messages than before the pair of calls:
\* the old history, then a user message carrying text, then an assistant
\* message, which is the very object generate_reply returned.
C1_UserThenAssistant ==
  AfterUserThenReply =>
    LET n == Len(conv.prev.before) IN
      /\ Len(messages) = n + 2
      /\ SubSeq(messages, 1, n) = conv.prev.before
      /\ messages[n + 1] = conv.prev.ret
      /\ heap[messages[n + 1]].role = "user"
      /\ heap[messages[n + 1]].content = conv.prev.arg
      /\ heap[messages[n + 2]].role = "assistant"
      /\ messages[n + 2] = conv.last.ret

C1_Witness == AfterUserThenReply /\ Len(conv.prev.before) >= 1

FailedReply == conv.last.op = "generate_reply" /\ conv.last.err # "none"

\* C2: a generate_reply() whose request fails (transport error or non-2xx)
\* raises one CompletionFailed, returns nothing, and leaves the history exactly
\* as it was before the call: when add_user_message preceded it, the history
\* still ends with that user message and holds no new assistant message.
C2_FailureKeepsHistory ==
  FailedReply =>
    /\ conv.last.err = "CompletionFailed"
    /\ conv.last.ret = None
    /\ messages = conv.last.before
    /\ conv.prev.op = "add_user_message" =>
         /\ messages # <<>>
         /\ messages[Len(messages)] = conv.prev.ret
         /\ heap[messages[Len(messages)]].role = "user"
         /\ heap[messages[Len(messages)]].content = conv.prev.arg

C2_Witness ==
  /\ FailedReply
  /\ conv.prev.op = "add_user_message"
  /\ conv.last.arg = "non_2xx"
  /\ Len(messages) >= 2

\* C3: across add_user_message, add_system_message, generate_reply (succeeding
\* or failing) and history, every step leaves the old history as a prefix of
\* the new one, message for message: nothing is removed, reordered or
\* replaced, and the length never decreases.
C3_AppendOnly ==
  [][/\ IsPrefix(messages, messages')
     /\ \A i \in 1..Len(messages) : heap'[messages'[i]] = heap[messages[i]]]_vars

\* An earlier observation of the history, outgrown by the live one.
C3_Witness ==
  /\ Len(snapshot) >= 1
  /\ Len(messages) > Len(snapshot)
  /\ IsPrefix(snapshot, messages)

\* C4: what history() returned is unaffected by later manager calls, and
\* nothing the caller does through it changes the live message sequence.
C4_SnapshotIsReadOnly ==
  [][/\ conv'.last.op \in {"add_user_message", "add_system_message", "generate_reply"}
          => Values(snapshot)' = Values(snapshot)
     /\ conv'.last.op = "assign"
          => Values(messages)' = Values(messages)]_vars

\* The entry the backend inserts for a configured system prompt.
SystemEntry(prompt) == [role |-> "system", content |-> prompt]

RequestSent == conv.last.op = "generate_reply"

\* C15: the remote backend prepends the configured system prompt to the
\* request only when one is configured and the serialized history does not
\* already start with it; a history that starts with the configured prompt is
\* sent as it is, so the request carries that prompt once.
C15_SystemPromptOnce ==
  RequestSent =>
    LET sent == RoleContent(conv.last.before) IN
      lastPayload =
        IF sysPrompt # "" /\ (sent = <<>> \/ sent[1] # SystemEntry(sysPrompt))
        THEN <<SystemEntry(sysPrompt)>> \o sent
        ELSE sent

InitConv == ConvInit /\ AudioIdle /\ TrIdle /\ LogInit /\ ChatIdle

SpecConv == InitConv /\ [][ConvNext]_vars
SpecConvCaller == InitConv /\ [][ConvCallerNext]_vars

\* ================================================= core/audio.py: operations

\* The audio specifications leave the conversation at rest.
ConvIdle ==
  /\ heap = <<>>
  /\ messages = <<>>
  /\ sysPrompt = ""
  /\ snapshot = <<>>
  /\ lastPayload = <<>>
  /\ conv = [last |-> NoCall, prev |-> NoCall]

Min(a, b) == IF a < b THEN a ELSE b

RECURSIVE SeqsUpTo(_)
\* The byte strings of at most n bytes.
SeqsUpTo(n) ==
  IF n = 0 THEN {<<>>}
  ELSE LET shorter == SeqsUpTo(n - 1) IN
         shorter \cup {Append(b, x) : b \in {t \in shorter : Len(t) = n - 1}, x \in Bytes}

AudioInit ==
  /\ srcKind \in {"mic", "file"}
  /\ installed \in (IF srcKind = "mic" THEN BOOLEAN ELSE {FALSE})
  /\ format \in (IF srcKind = "mic" THEN Formats ELSE {"int16"})
  /\ data \in (IF srcKind = "file" THEN SeqsUpTo(MaxLen) ELSE {<<>>})
  /\ chunkSize \in (IF srcKind = "file" THEN 1..MaxChunk ELSE {1})
  /\ mic = Unopened
  /\ gens = <<>>
  /\ reads = 0
  /\ audio = NoSourceCall
  /\ region = Outside

\* PyAudioMicrophone.open(): the import, pyaudio.PyAudio(), the format lookup,
\* then self._pyaudio.open(...).  deviceOk: whether the driver opens the stream.
MicOpen(m, deviceOk) ==
  IF ~installed THEN [m |-> m, err |-> "BackendUnavailable"]
  ELSE
    LET h == m.handles + 1
        m1 == [m EXCEPT !.pa = h, !.allocPA = @ \cup {h}, !.handles = h]
    IN IF format \notin SupportedFormats THEN [m |-> m1, err |-> "UnsupportedFormat"]
       ELSE IF ~deviceOk THEN [m |-> m1, err |-> "DeviceError"]
       ELSE [m |-> [m1 EXCEPT !.stream = h, !.allocStreams = @ \cup {h}],
             err |-> "none"]

\* Mutant of MicClose: the stream stopped without the None test.
MicCloseUnguarded(m) ==
  IF m.stream = None THEN [m |-> m, err |-> "AttributeError"]
  ELSE [m |-> [m EXCEPT !.allocStreams = @ \ {m.stream}, !.stream = None,
                        !.allocPA = @ \ {m.pa}, !.pa = None],
        err |-> "none"]

\* PyAudioMicrophone.close()
MicClose(m) ==
  LET m1 == IF m.stream # None
            THEN [m EXCEPT !.allocStreams = @ \ {m.stream}, !.stream = None]
            ELSE m
      m2 == IF m1.pa # None
            THEN [m1 EXCEPT !.allocPA = @ \ {m1.pa}, !.pa = None]
            ELSE m1
  IN [m |-> m2, err |-> "none"]

\* open() of the source at hand; FileAudioStream.open() returns None.
SourceOpen(m, deviceOk) ==
  IF srcKind = "mic" THEN MicOpen(m, deviceOk) ELSE [m |-> m, err |-> "none"]

\* close() of the source at hand; FileAudioStream.close() returns None.
SourceClose(m) ==
  IF srcKind = "mic" THEN MicClose(m) ELSE [m |-> m, err |-> "none"]

\* Mutant of Exit: the source closed only when the block ended without an
\* exception.
ExitOnSuccessOnly(m, path) ==
  IF path = "failure" THEN [m |-> m, err |-> "none", closed |-> FALSE]
  ELSE [m |-> SourceClose(m).m, err |-> SourceClose(m).err, closed |-> TRUE]

\* MicrophoneStream.__exit__(exc_type, exc, tb): close(), whatever ended the
\* block; it returns None, so an exception keeps propagating.
Exit(m, path) ==
  [m |-> SourceClose(m).m, err |-> SourceClose(m).err, closed |-> TRUE]

Saw(op, err) ==
  [op |-> op, err |-> err, afterClose |-> (audio.op = "close"),
   openCalled |-> audio.openCalled \/ op \in {"open", "enter"}]

\* source.open()
Open(deviceOk) ==
  /\ mic.handles < MaxHandles
  /\ mic' = SourceOpen(mic, deviceOk).m
  /\ audio' = Saw("open", SourceOpen(mic, deviceOk).err)
  /\ UNCHANGED <<srcKind, installed, format, data, chunkSize, gens, reads, region>>
  /\ UNCHANGED otherThanAudio

\* source.close()
Close ==
  /\ mic' = SourceClose(mic).m
  /\ audio' = Saw("close", SourceClose(mic).err)
  /\ UNCHANGED <<srcKind, installed, format, data, chunkSize, gens, reads, region>>
  /\ UNCHANGED otherThanAudio

\* `with source:` entered: __enter__ calls open(); when open() raises, the
\* block is not entered and __exit__ is not called.
Enter(deviceOk) ==
  /\ region.pc # "inside"
  /\ mic.handles < MaxHandles
  /\ LET r == SourceOpen(mic, deviceOk) IN
       /\ mic' = r.m
       /\ audio' = Saw("enter", r.err)
       /\ region' = IF r.err = "none"
                    THEN [pc |-> "inside", path |-> "none", closed |-> FALSE,
                          pa |-> r.m.pa, stream |-> r.m.stream]
                    ELSE [pc |-> "entry_failed", path |-> "none", closed |-> FALSE,
                          pa |-> None, stream |-> None]
  /\ UNCHANGED <<srcKind, installed, format, data, chunkSize, gens, reads>>
  /\ UNCHANGED otherThanAudio

Suspended == \E g \in 1..Len(gens) : gens[g].status = "suspended"

\* `with source:` left: by the body completing, by the caller stopping its
\* iteration early (a generator is left suspended), or by an exception
\* propagating out of the body.  Every one of them runs __exit__.
Leave(path) ==
  /\ region.pc = "inside"
  /\ path = "early_stop" => Suspended
  /\ path = "normal" => ~Suspended /\ audio.err = "none"
  /\ path = "failure" => audio.err # "none"
  /\ LET r == Exit(mic, path) IN
       /\ mic' = r.m
       /\ audio' = Saw("exit", r.err)
       /\ region' = [pc |-> "exited", path |-> path, closed |-> r.closed,
                     pa |-> mic.pa, stream |-> mic.stream]
  /\ UNCHANGED <<srcKind, installed, format, data, chunkSize, gens, reads>>
  /\ UNCHANGED otherThanAudio

\* source.chunks(): both are generator functions, so the call runs none of the
\* body and returns a generator object.
Chunks ==
  /\ Len(gens) < (IF srcKind = "file" THEN MaxFileGens ELSE MaxMicGens)
  /\ gens' = Append(gens, [openAtCall |-> (srcKind = "file" \/ mic.stream # None),
                           status |-> "created", index |-> 0, out |-> <<>>,
                           pulls |-> 0, reads |-> 0])
  /\ audio' = Saw("chunks", "none")
  /\ UNCHANGED <<srcKind, installed, format, data, chunkSize, mic, reads, region>>
  /\ UNCHANGED otherThanAudio

\* Mutant of Slice: the slice one byte short.
SliceShort(d, lo, hi) == SubSeq(d, lo + 1, Min(hi, Len(d)) - 1)

\* d[lo:hi]
Slice(d, lo, hi) == SubSeq(d, lo + 1, Min(hi, Len(d)))

\* next() on a generator of PyAudioMicrophone.chunks(): the first one runs the
\* None test; every one reads a block from self._stream.
MicPull(g, readOk) ==
  /\ srcKind = "mic"
  /\ g \in 1..Len(gens)
  /\ gens[g].status \in {"created", "suspended"}
  /\ LET notOpen == gens[g].status = "created" /\ mic.stream = None
         gone == gens[g].status = "suspended" /\ mic.stream = None
         attempt == ~notOpen /\ ~gone
         err == IF notOpen THEN "NotOpen"
                ELSE IF gone THEN "AttributeError"
                ELSE IF ~readOk THEN "DeviceError" ELSE "none"
     IN
       /\ attempt => reads < MaxReads
       /\ reads' = IF attempt THEN reads + 1 ELSE reads
       /\ gens' = [gens EXCEPT ![g] =
            [@ EXCEPT !.status = IF err = "none" THEN "suspended" ELSE err,
                      !.out = IF err = "none" THEN Append(@, <<"block">>) ELSE @,
                      !.pulls = 1,
                      !.reads = IF attempt THEN 1 ELSE @]]
       /\ audio' = Saw("next", err)
  /\ UNCHANGED <<srcKind, installed, format, data, chunkSize, mic, region>>
  /\ UNCHANGED otherThanAudio

\* next() on a generator of FileAudioStream.chunks():
\* for index in range(0, len(self._data), chunk_size): yield a slice.
FilePull(g) ==
  /\ srcKind = "file"
  /\ g \in 1..Len(gens)
  /\ gens[g].status \in {"created", "suspended"}
  /\ gens' = [gens EXCEPT ![g] =
       IF @.index < Len(data)
       THEN [@ EXCEPT !.status = "suspended",
                      !.out = Append(@, Slice(data, gens[g].index, gens[g].index + chunkSize)),
                      !.index = @ + chunkSize,
                      !.pulls = 1]
       ELSE [@ EXCEPT !.status = "exhausted", !.pulls = 1]]
  /\ audio' = Saw("next", "none")
  /\ UNCHANGED <<srcKind, installed, format, data, chunkSize, mic, reads, region>>
  /\ UNCHANGED otherThanAudio

AudioNext ==
  \/ \E ok \in BOOLEAN : Open(ok)
  \/ Close
  \/ \E ok \in BOOLEAN : Enter(ok)
  \/ \E path \in ExitPaths : Leave(path)
  \/ Chunks
  \/ \E g \in 1..MaxMicGens, ok \in BOOLEAN : MicPull(g, ok)
  \/ \E g \in 1..MaxFileGens : FilePull(g)

\* ------------------------------------------------------- audio: properties

RECURSIVE Concat(_)
Concat(chunks) ==
  IF chunks = <<>> THEN <<>> ELSE Head(chunks) \o Concat(Tail(chunks))

CeilDiv(n, c) == (n + c - 1) \div c

Exhausted == {g \in 1..Len(gens) : gens[g].status = "exhausted"}

\* C5: on a static-buffer source of N bytes with chunk size C, a chunks()
\* iteration run to its end has yielded ceil(N/C) chunks, all of C bytes but
\* possibly the last, which is not empty; joined in order they are the buffer;
\* and any two iterations run to their end have yielded the same sequence.
C5_FileChunks ==
  srcKind = "file" =>
    /\ \A g \in Exhausted :
         LET out == gens[g].out IN
           /\ Len(out) = CeilDiv(Len(data), chunkSize)
           /\ \A i \in 1..Len(out) - 1 : Len(out[i]) = chunkSize
           /\ out # <<>> => Len(out[Len(out)]) \in 1..chunkSize
           /\ Concat(out) = data
    /\ \A g, h \in Exhausted : gens[g].out = gens[h].out

\* Two iterations run to their end over a buffer whose last chunk is short.
C5_Witness ==
  /\ srcKind = "file"
  /\ Cardinality(Exhausted) = 2
  /\ Len(data) = 3
  /\ chunkSize = 2

RedundantClose ==
  audio.op = "close" /\ (~audio.openCalled \/ audio.afterClose)

\* C6: for both variants, a close() on a source that open() was never called
\* on, and a close() that directly follows a close(), does not raise and
\* leaves the source holding no driver instance and no stream.
C6_CloseIdempotent ==
  RedundantClose =>
    /\ audio.err = "none"
    /\ mic.pa = None
    /\ mic.stream = None

\* A microphone that was opened, closed, and closed again.
C6_Witness ==
  /\ srcKind = "mic"
  /\ RedundantClose
  /\ audio.afterClose
  /\ mic.handles >= 1

\* C7: entering the block opens the source; leaving it, by completion, by an
\* early stop or by a propagating failure, runs close(): afterwards the source
\* holds no handle, the handles it held when the block was left are released,
\* and when the entry's open() was the only one made on the source nothing
\* stays allocated.
C7_ScopedRelease ==
  /\ (audio.op = "enter" /\ audio.err = "none") =>
       /\ region.pc = "inside"
       /\ srcKind = "mic" => mic.stream # None /\ mic.stream \in mic.allocStreams
  /\ audio.op = "exit" =>
       /\ region.pc = "exited"
       /\ region.closed
       /\ mic.pa = None
       /\ mic.stream = None
       /\ region.pa \notin mic.allocPA
       /\ region.stream \notin mic.allocStreams
       /\ mic.handles = 1 => mic.allocPA = {} /\ mic.allocStreams = {}

\* A microphone block left by a failure, the stream open until then.
C7_Witness ==
  /\ srcKind = "mic"
  /\ audio.op = "exit"
  /\ region.path = "failure"
  /\ region.stream # None

\* C8: a chunks() call made on a microphone before open() fails with NotOpen
\* (at the latest when its result is first pulled from): it produces no chunk
\* and attempts no device read.
C8_ChunksBeforeOpenFails ==
  \A g \in 1..Len(gens) :
    (srcKind = "mic" /\ ~gens[g].openAtCall /\ gens[g].pulls > 0) =>
      /\ gens[g].status = "NotOpen"
      /\ gens[g].out = <<>>
      /\ gens[g].reads = 0

\* C20: the microphone owns at most one driver instance and one stream at a
\* time, and a close() (called directly or on leaving the block) releases
\* every handle acquired since the previous close(): no open()/close()
\* sequence, a repeated open() included, leaves a handle allocated.
C20_NoLeakedHandles ==
  /\ Cardinality(mic.allocPA) <= 1
  /\ Cardinality(mic.allocStreams) <= 1
  /\ audio.op \in {"close", "exit"} =>
       /\ mic.allocPA = {}
       /\ mic.allocStreams = {}

\* C21: an open() of the microphone that fails, called directly or by
\* entering the block (whose __exit__ then does not run), leaves the source
\* as it was before the call: its fields unchanged and no driver instance or
\* stream allocated that was not allocated before.
C21_FailedOpenChangesNothing ==
  [][(/\ srcKind = "mic"
      /\ audio'.op \in {"open", "enter"}
      /\ audio'.err # "none") =>
       /\ mic'.pa = mic.pa
       /\ mic'.stream = mic.stream
       /\ mic'.allocPA = mic.allocPA
       /\ mic'.allocStreams = mic.allocStreams]_vars

InitAudio == AudioInit /\ ConvIdle /\ TrIdle /\ LogInit /\ ChatIdle

SpecAudio == InitAudio /\ [][AudioNext]_vars

\* ======================================== core/transcription.py: operations

\* whisper.audio.SAMPLE_RATE, kept as self._sample_rate
EngineRate == 16000
Rates == {EngineRate, 8000}
\* wBitsPerSample as declared in a fmt chunk that the wave module accepts
\* (it rejects a declaration of 0 bits itself, as it does a malformed
\* container: the header token's `ok` is FALSE for those)
DeclaredBits == {8, 12, 16, 24}
Hints == {"none", "en"}

\* What the engine answers: result["text"], result["segments"] (each with its
\* avg_logprob, or without), result["language"].
EngineResults ==
  { [text |-> "", segments |-> <<>>, language |-> "en"],
    [text |-> "hi", segments |-> <<[text |-> "hi", avg_logprob |-> "lp"]>>,
     language |-> "en"],
    [text |-> "hi", segments |-> <<[text |-> "hi", avg_logprob |-> Absent]>>,
     language |-> Absent] }

Pcm(n) == [i \in 1..n |-> PcmByte]

\* The buffers tried: raw PCM, and a header followed by PCM.
Buffers ==
  {Pcm(n) : n \in 0..MaxPcm}
    \cup {<<Header(ok, b, r)>> \o Pcm(n) :
            ok \in BOOLEAN, b \in DeclaredBits, r \in Rates, n \in 0..MaxPcm}

\* The ways a buffer reaches transcribe(): no chunk at all (for the empty
\* buffer), one chunk, two chunks cut anywhere, an empty chunk in between.
Chunkings(buf) ==
  (IF buf = <<>> THEN {<<>>} ELSE {})
    \cup {<<buf>>}
    \cup {<<SubSeq(buf, 1, k), SubSeq(buf, k + 1, Len(buf))>> : k \in 0..Len(buf)}
    \cup {<<SubSeq(buf, 1, k), <<>>, SubSeq(buf, k + 1, Len(buf))>> : k \in 0..Len(buf)}

TrInit ==
  /\ trInput \in UNION {Chunkings(buf) : buf \in Buffers}
  /\ tr = NotCalled

\* b"".join(audio_stream)
Join(chunks) == Concat(chunks)

\* wave.Wave_read.getsampwidth(): the declared bits rounded up to whole bytes.
SampWidth(bits) == (bits + 7) \div 8

\* wave.Wave_read.readframes(getnframes()): the whole frames of the sample data.
Frames(body, width) == SubSeq(body, 1, Len(body) - (Len(body) % width))

Raised(err, hint) == [NotCalled EXCEPT !.status = "raised", !.err = err, !.hint = hint]

\* Mutant of EmptyTranscript: the empty result carrying one blank segment.
EmptyTranscriptWithSegment(hint) ==
  [NotCalled EXCEPT !.status = "returned", !.hint = hint,
                    !.segments = <<[text |-> "", confidence |-> Absent]>>]

\* TranscriptResult(text="", segments=())
EmptyTranscript(hint) == [NotCalled EXCEPT !.status = "returned", !.hint = hint]

\* Mutant of NeedsResample: the rates never compared.
NeverResample(rate) == FALSE

\* if sample_rate != self._sample_rate
NeedsResample(rate) == rate # EngineRate

\* The tail of transcribe(): when the rates differ, resample_audio imported
\* from whisper.audio (canResample: whether the installed package provides it)
\* and applied; then one call of the engine, and its answer mapped to a
\* TranscriptResult.
Engine(rate, hint, result, canResample) ==
  IF NeedsResample(rate) /\ ~canResample
  THEN [Raised("ImportError", hint) EXCEPT !.sourceRate = rate]
  ELSE
    [status |-> "returned", err |-> "none",
     text |-> result.text,
     segments |-> [i \in 1..Len(result.segments) |->
                     [text |-> result.segments[i].text,
                      confidence |-> result.segments[i].avg_logprob]],
     language |-> IF result.language = Absent THEN "none" ELSE result.language,
     engineCalls |-> 1,
     resampled |-> NeedsResample(rate),
     sourceRate |-> rate,
     engineRate |-> IF NeedsResample(rate) THEN EngineRate ELSE rate,
     hint |-> hint]

\* transcribe() on a buffer that is not empty: the container parsed when the
\* buffer starts with b"RIFF", the raw bytes taken as int16 otherwise.
Decode(buf, hint, result, canResample) ==
  IF buf[1].riff
  THEN IF ~buf[1].ok THEN Raised("WaveError", hint)
       ELSE IF SampWidth(buf[1].bits) # 2
            THEN Raised("UnsupportedSampleWidth", hint)
            ELSE IF Len(Frames(Tail(buf), 2)) \div 2 = 0
                 THEN EmptyTranscript(hint)
                 ELSE Engine(buf[1].rate, hint, result, canResample)
  ELSE IF Len(buf) % 2 # 0 THEN Raised("ValueError", hint)
       ELSE IF Len(buf) \div 2 = 0
            THEN EmptyTranscript(hint)
            ELSE Engine(EngineRate, hint, result, canResample)

\* LocalWhisperClient.transcribe(audio_stream, language=hint)
TranscribeResult(chunks, hint, result, canResample) ==
  IF Join(chunks) = <<>> THEN EmptyTranscript(hint)
  ELSE Decode(Join(chunks), hint, result, canResample)

Transcribe(hint, result, canResample) ==
  /\ tr.status = "idle"
  /\ tr' = TranscribeResult(trInput, hint, result, canResample)
  /\ UNCHANGED trInput
  /\ UNCHANGED otherThanTr

TrNext ==
  \E hint \in Hints, result \in EngineResults, canResample \in BOOLEAN :
    Transcribe(hint, result, canResample)

\* ------------------------------------------------ transcription: properties

\* C9: for an input of no chunks, or of chunks that total zero bytes,
\* transcribe returns text "" and no segments, and never calls the engine.
C9_EmptyInput ==
  (tr.status # "idle" /\ Join(trInput) = <<>>) =>
    /\ tr.status = "returned"
    /\ tr.text = ""
    /\ tr.segments = <<>>
    /\ tr.engineCalls = 0

\* Several chunks, all of them empty.
C9_Witness ==
  /\ tr.status # "idle"
  /\ Len(trInput) >= 2
  /\ Join(trInput) = <<>>

WavNot16 ==
  /\ Join(trInput) # <<>>
  /\ Join(trInput)[1].riff
  /\ Join(trInput)[1].ok
  /\ Join(trInput)[1].bits # 16

\* C10: for a buffer that starts with a WAV header declaring a sample width
\* other than 16 bits, transcribe fails with UnsupportedSampleWidth and the
\* engine is not called.
C10_Not16BitsRejected ==
  (tr.status # "idle" /\ WavNot16) =>
    /\ tr.status = "raised"
    /\ tr.err = "UnsupportedSampleWidth"
    /\ tr.engineCalls = 0

\* The rate the samples of the input are at: the header's for a container
\* that is read, the backend's own for raw bytes.
InputRate ==
  IF Join(trInput) # <<>> /\ Join(trInput)[1].riff
  THEN Join(trInput)[1].rate
  ELSE EngineRate

\* C11: every call of the engine is handed audio at the engine's rate, and when
\* the source rate differs from it the audio was resampled before that call:
\* the engine is never called on audio left at another rate.
C11_ResampledBeforeEngine ==
  tr.engineCalls > 0 =>
    /\ tr.engineCalls = 1
    /\ tr.sourceRate = InputRate
    /\ tr.engineRate = EngineRate
    /\ tr.resampled = (InputRate # EngineRate)

\* A 16-bit container at another rate, resampled and handed to the engine.
C11_Witness ==
  /\ tr.engineCalls = 1
  /\ InputRate # EngineRate
  /\ tr.resampled
  /\ tr.engineRate = EngineRate

RawInput ==
  /\ Join(trInput) # <<>>
  /\ ~Join(trInput)[1].riff

\* C18: a buffer that is not empty and has no container header, of any
\* length, is taken as raw 16-bit PCM at the backend's rate: transcribe does
\* not fail on it, does not resample, and returns the empty result or calls
\* the engine exactly once.
C18_RawAnyLength ==
  (tr.status # "idle" /\ RawInput) =>
    /\ tr.status = "returned"
    /\ ~tr.resampled
    /\ \/ tr.engineCalls = 1
       \/ tr.engineCalls = 0 /\ tr.text = "" /\ tr.segments = <<>>

InitTr == TrInit /\ ConvIdle /\ AudioIdle /\ LogInit /\ ChatIdle

SpecTr == InitTr /\ [][TrNext]_vars

\* ========================================== core/persistence.py: operations

\* The metadata mappings tried: none, one that serializes, and one that holds
\* a None (TranscriptResult.language and the segment fields are optional),
\* which TOML cannot express.
LogMetadata == {"empty", "plain", "with_none"}
Serializable(metadata) == metadata # "with_none"

\* The messages handed to write(): references play no part in it, so they
\* are given by value.
SystemLists ==
  {<<>>,
   <<Message("system", "sys", "empty")>>,
   <<Message("system", "sys", "empty"), Message("system", "a", "plain")>>}
Turn(user, assistant) == [user |-> user, assistant |-> assistant]
TurnPool ==
  {Turn(Message("user", "a", "with_none"), Message("assistant", "r", "plain")),
   Turn(Message("user", "b", "plain"), Message("assistant", "r", "empty"))}
TurnLists == UNION {[1..n -> TurnPool] : n \in 0..MaxTurns}

\* _message_to_dict: the metadata key only when the mapping is not empty.
MessageToDict(message) ==
  [role |-> message.role, content |-> message.content,
   metadata |-> IF message.metadata = "empty" THEN Absent ELSE message.metadata]

\* for message in system: doc["messages"].append(...)
RECURSIVE SystemEntries(_)
SystemEntries(system) ==
  IF system = <<>> THEN <<>>
  ELSE <<MessageToDict(Head(system))>> \o SystemEntries(Tail(system))

\* Mutant of TurnEntries: each turn's assistant message before its user
\* message.
RECURSIVE TurnEntriesAssistantFirst(_)
TurnEntriesAssistantFirst(turns) ==
  IF turns = <<>> THEN <<>>
  ELSE <<MessageToDict(Head(turns).assistant), MessageToDict(Head(turns).user)>>
         \o TurnEntriesAssistantFirst(Tail(turns))

\* for turn in turns: append the user message, append the assistant message
RECURSIVE TurnEntries(_)
TurnEntries(turns) ==
  IF turns = <<>> THEN <<>>
  ELSE <<MessageToDict(Head(turns).user), MessageToDict(Head(turns).assistant)>>
         \o TurnEntries(Tail(turns))

\* doc, as write() builds it (created_at left out).
Document(id, system, turns, metadata) ==
  [kind |-> "document", id |-> id, metadata |-> metadata,
   messages |-> SystemEntries(system) \o TurnEntries(turns)]

\* The file when the writer stopped after n entries of doc.
Truncated(doc, n) ==
  [kind |-> "partial", id |-> doc.id, metadata |-> doc.metadata,
   messages |-> SubSeq(doc.messages, 1, n)]

\* The entries tomli_w.dump cannot serialize.
Unserializable(doc) ==
  {i \in 1..Len(doc.messages) :
     doc.messages[i].metadata # Absent /\ ~Serializable(doc.messages[i].metadata)}

FirstOf(S) == CHOOSE i \in S : \A j \in S : i <= j

\* tomli_w.dump(doc, fp) on the file just opened: it writes the document
\* table by table and raises at the first value it cannot serialize;
\* diskOk: whether the file system takes the bytes.
Dump(doc, diskOk) ==
  IF ~diskOk THEN [file |-> Truncated(doc, 0), err |-> "OSError"]
  ELSE IF ~Serializable(doc.metadata)
    THEN [file |-> Truncated(doc, 0), err |-> "TypeError"]
  ELSE IF Unserializable(doc) # {}
    THEN [file |-> Truncated(doc, FirstOf(Unserializable(doc)) - 1),
          err |-> "TypeError"]
  ELSE [file |-> doc, err |-> "none"]

\* Mutant of Store: the file opened for appending.
StoreAppended(old, new) == [new EXCEPT !.messages = old.messages \o @]

\* path.open("wb"), then what the writer put into the file: the mode
\* truncates, nothing of the old content stays.
Store(old, new) == new

\* TomlLogger.write(conversation_id, system=..., turns=..., metadata=...)
Write(id, system, turns, metadata, diskOk) ==
  \E path \in {FilePath(id)} :
    \E r \in {Dump(Document(id, system, turns, metadata), diskOk)} :
      /\ files' = [files EXCEPT ![path] = Store(@, r.file)]
      /\ logged' = [op |-> "write", id |-> id, system |-> system,
                    turns |-> turns, metadata |-> metadata, err |-> r.err,
                    ret |-> IF r.err = "none" THEN path ELSE None,
                    prior |-> files[path].kind]
      /\ UNCHANGED otherThanLog

\* The calls tried: the disk failing is tried on documents that serialize.
LogNext ==
  \E id \in Ids, system \in SystemLists, turns \in TurnLists,
     metadata \in {"empty", "with_none"} :
    \E diskOk \in (IF metadata = "empty" THEN BOOLEAN ELSE {TRUE}) :
      Write(id, system, turns, metadata, diskOk)

\* ========================================== core/persistence.py: properties

Written == logged.op = "write" /\ logged.err = "none"

C13_WriteAtomic ==
  [][\A p \in Paths :
       \/ files'[p] = files[p]
       \/ /\ logged'.err = "none"
          /\ p = FilePath(logged'.id)
          /\ files'[p] = Document(logged'.id, logged'.system, logged'.turns,
                                  logged'.metadata)]_vars

InitLog == LogInit /\ ConvIdle /\ AudioIdle /\ TrIdle /\ ChatIdle

SpecLog == InitLog /\ [][LogNext]_vars

\* ================================================== ui/cli.py: operations

\* AudioConfig(), as chat builds it
DefaultSampleRate == 16000
DefaultChunkSize == 1024

\* --duration values tried, in milliseconds (5000 is the default)
Durations == {-100, 0, 100, 150, 200, 5000}
\* sizes in bytes of the --audio-file tried
FileLens == {0, 1024, 1025, 2049}
\* What the transcription backend may do with the collected chunks: return a
\* transcript with text, return the empty transcript, or raise.
TranscribeOutcomes == {"text", "empty", "raises"}
Languages == {"none", "en"}

Max(a, b) == IF a > b THEN a ELSE b

\* int(x) for the quotient n / d, d > 0: truncation towards zero
Trunc(n, d) == IF n >= 0 THEN n \div d ELSE -((-n) \div d)

\* Mutant of RequiredChunks: no minimum of one chunk.
RequiredChunksNoMinimum(ms) ==
  Trunc(ms * DefaultSampleRate, 1000 * DefaultChunkSize)

\* required_chunks = max(1, int(duration * sample_rate / chunk_size))
RequiredChunks(ms) ==
  Max(1, Trunc(ms * DefaultSampleRate, 1000 * DefaultChunkSize))

\* The duration argument of _collect_audio: chat passes
\* `duration if audio_file is None else None`.
DurationArg ==
  IF chat.caller = "chat"
  THEN [given |-> (srcKind # "file"), ms |-> chat.duration]
  ELSE [given |-> chat.bounded, ms |-> chat.duration]

\* _collect_audio: list(stream.chunks()) without a duration, else
\* list(islice(stream.chunks(), required_chunks)).
Limit(arg) ==
  IF arg.given THEN [bounded |-> TRUE, n |-> RequiredChunks(arg.ms)]
  ELSE [bounded |-> FALSE, n |-> 0]

\* Whether chunks() has another chunk after k: a microphone always has, a
\* static buffer while k * chunk_size < len(data).
HasChunk(k) ==
  IF srcKind = "mic" THEN TRUE ELSE k * DefaultChunkSize < chat.fileLen

\* Whether list()/islice() pulls again after k chunks.
WantsChunk(k) == ~chat.limit.bounded \/ k < chat.limit.n

\* The run ended by an exception propagating out of chat.
Failed(err) == [chat EXCEPT !.pc = "failed", !.err = err]

ChatInit ==
  /\ ConvInit
  /\ TrIdle
  /\ LogInit
  /\ srcKind \in {"mic", "file"}
  /\ installed \in (IF srcKind = "mic" THEN BOOLEAN ELSE {FALSE})
  /\ format = "int16"
  /\ data = <<>>
  /\ chunkSize = 1
  /\ mic = Unopened
  /\ gens = <<>>
  /\ reads = 0
  /\ audio = NoSourceCall
  /\ region = Outside
  /\ \E caller \in {"chat", "direct"}, d \in Durations, n \in FileLens,
        b \in BOOLEAN, id \in Ids :
       /\ srcKind = "mic" => n = 0 /\ b
       /\ caller = "chat" => b
       /\ caller = "direct" => sysPrompt = ""
       /\ chat = [NoRun EXCEPT !.pc = IF caller = "chat" THEN "invoked" ELSE "setup",
                               !.caller = caller, !.duration = d,
                               !.bounded = b, !.fileLen = n, !.convId = id]

\* chat, up to the `with`: the clients and the manager built, and the system
\* prompt, when one is given, added to the history.
Setup ==
  /\ chat.pc = "invoked"
  /\ IF sysPrompt # ""
     THEN /\ heap' = Append(heap, Message("system", sysPrompt, "empty"))
          /\ messages' = Append(messages, Len(heap) + 1)
     ELSE UNCHANGED <<heap, messages>>
  /\ chat' = [chat EXCEPT !.pc = "setup"]
  /\ UNCHANGED <<sysPrompt, snapshot, lastPayload, conv>>
  /\ UNCHANGED <<audioVars, trVars, logVars>>

\* `with microphone:` entered and _collect_audio called; when open() raises
\* the block is not entered and the exception ends the run.
EnterSource(deviceOk) ==
  /\ chat.pc = "setup"
  /\ \E r \in {SourceOpen(mic, deviceOk)} :
       /\ mic' = r.m
       /\ chat' = IF r.err = "none"
                  THEN [chat EXCEPT !.pc = "collecting",
                                    !.steps = Append(@, "capture"),
                                    !.limit = Limit(DurationArg)]
                  ELSE [Failed(r.err) EXCEPT !.steps = Append(@, "capture")]
  /\ UNCHANGED <<srcKind, installed, format, data, chunkSize, gens, reads,
                 audio, region>>
  /\ UNCHANGED <<convVars, trVars, logVars>>

\* One more chunk pulled from chunks(); a device read that raises leaves the
\* block through __exit__, which closes the source.
Pull(readOk) ==
  /\ chat.pc = "collecting"
  /\ WantsChunk(chat.chunks)
  /\ HasChunk(chat.chunks)
  /\ IF srcKind = "mic" /\ ~readOk
     THEN /\ mic' = Exit(mic, "failure").m
          /\ chat' = Failed("IOError")
     ELSE /\ mic' = mic
          /\ chat' = [chat EXCEPT !.chunks = @ + 1]
  /\ UNCHANGED <<srcKind, installed, format, data, chunkSize, gens, reads,
                 audio, region>>
  /\ UNCHANGED <<convVars, trVars, logVars>>

\* Mutant of LeaveBlock: the source left as it is.
LeaveBlockOpen(m) == m

\* The end of the `with` block reached: __exit__(None, None, None).
LeaveBlock(m) == Exit(m, "normal").m

\* The list complete: _collect_audio returns and the block is left.
LeaveSource ==
  /\ chat.pc = "collecting"
  /\ ~(WantsChunk(chat.chunks) /\ HasChunk(chat.chunks))
  /\ mic' = LeaveBlock(mic)
  /\ chat' = [chat EXCEPT !.pc = IF chat.caller = "chat" THEN "captured"
                                 ELSE "returned"]
  /\ UNCHANGED <<srcKind, installed, format, data, chunkSize, gens, reads,
                 audio, region>>
  /\ UNCHANGED <<convVars, trVars, logVars>>

\* transcript = whisper.transcribe(audio_chunks): no chunks, no text.
ChatTranscribe(outcome, language) ==
  /\ chat.pc = "captured"
  /\ outcome = "text" => chat.chunks > 0
  /\ chat' = [(IF outcome = "raises" THEN Failed("TranscriptionFailed")
               ELSE [chat EXCEPT !.pc = "transcribed",
                                 !.text = IF outcome = "text" THEN "a" ELSE "",
                                 !.language = language])
              EXCEPT !.steps = Append(@, "transcribe"),
                     !.openAtTranscribe = (mic.pa # None \/ mic.stream # None)]
  /\ UNCHANGED <<convVars, audioVars, trVars, logVars>>

\* if not transcript.text: echo "No speech detected."; raise typer.Exit(code=1)
NoSpeech ==
  /\ chat.pc = "transcribed"
  /\ chat.text = ""
  /\ chat' = [chat EXCEPT !.pc = "no_speech", !.err = "Exit", !.code = 1]
  /\ UNCHANGED <<convVars, audioVars, trVars, logVars>>

\* The metadata mapping _transcript_metadata builds: its language is None
\* when the transcript names none.
TranscriptMetadata == IF chat.language = "none" THEN "with_none" ELSE "plain"

\* manager.add_user_message(transcript.text, metadata={"transcript": ...})
ChatAddUser ==
  /\ chat.pc = "transcribed"
  /\ chat.text # ""
  /\ heap' = Append(heap, Message("user", chat.text, TranscriptMetadata))
  /\ messages' = Append(messages, Len(heap) + 1)
  /\ chat' = [chat EXCEPT !.pc = "user_added"]
  /\ UNCHANGED <<sysPrompt, snapshot, lastPayload, conv>>
  /\ UNCHANGED <<audioVars, trVars, logVars>>

\* Where chat goes after manager.generate_reply(): on, or out with the
\* exception.
AfterGenerate(outcome) ==
  IF outcome = "ok" THEN [chat EXCEPT !.pc = "replied"]
  ELSE Failed("CompletionFailed")

\* assistant_msg = manager.generate_reply()
ChatGenerate(outcome, role, content, usage) ==
  /\ chat.pc = "user_added"
  /\ lastPayload' = Payload(messages, sysPrompt)
  /\ IF outcome = "ok"
     THEN /\ heap' = Append(heap, ReplyMessage(role, content, usage))
          /\ messages' = AppendReply(messages, Len(heap) + 1)
     ELSE /\ heap' = heap
          /\ messages' = AfterFailure(messages)
  /\ chat' = [AfterGenerate(outcome) EXCEPT !.steps = Append(@, "generate")]
  /\ UNCHANGED <<sysPrompt, snapshot, conv>>
  /\ UNCHANGED <<audioVars, trVars, logVars>>

\* [msg for msg in manager.history() if msg.role == "system"]
SystemMessages == SelectSeq(Values(messages), LAMBDA m : m.role = "system")

\* The last user message of the history and the message after it: user_msg
\* and assistant_msg of chat.
LastUser ==
  CHOOSE i \in 1..Len(messages) :
    /\ heap[messages[i]].role = "user"
    /\ \A j \in (i + 1)..Len(messages) : heap[messages[j]].role # "user"

\* TomlLogger(...).write(conv_id, system=..., turns=[one turn], metadata=...),
\* then the closing echo.
Persist(diskOk) ==
  /\ chat.pc = "replied"
  /\ \E path \in {FilePath(chat.convId)}, system \in {SystemMessages},
        turns \in {<<Turn(heap[messages[LastUser]], heap[messages[LastUser + 1]])>>} :
       \E r \in {Dump(Document(chat.convId, system, turns, TranscriptMetadata), diskOk)} :
         /\ files' = [files EXCEPT ![path] = Store(@, r.file)]
         /\ logged' = [op |-> "write", id |-> chat.convId, system |-> system,
                       turns |-> turns, metadata |-> TranscriptMetadata,
                       err |-> r.err,
                       ret |-> IF r.err = "none" THEN path ELSE None,
                       prior |-> files[path].kind]
         /\ chat' = [(IF r.err = "none"
                      THEN [chat EXCEPT !.pc = "done", !.code = 0]
                      ELSE Failed(r.err))
                     EXCEPT !.steps = Append(@, "persist")]
  /\ UNCHANGED <<convVars, audioVars, trVars>>

ChatNext ==
  \/ Setup
  \/ \E deviceOk \in BOOLEAN : EnterSource(deviceOk)
  \/ \E readOk \in BOOLEAN : Pull(readOk)
  \/ LeaveSource
  \/ \E o \in TranscribeOutcomes, l \in Languages : ChatTranscribe(o, l)
  \/ NoSpeech
  \/ ChatAddUser
  \/ \E o \in Outcomes, r \in ReplyRoles, c \in ReplyContents, u \in Usages :
       ChatGenerate(o, r, c, u)
  \/ \E diskOk \in BOOLEAN : Persist(diskOk)

\* ================================================== ui/cli.py: properties

NoDocument == \A p \in Paths : files[p].kind = "absent"

\* The transcription returned a transcript without text.
EmptyTranscriptRun ==
  /\ chat.pc \in {"transcribed", "no_speech"}
  /\ chat.text = ""

\* C16: a run whose transcript is empty is not a failed run: no user message
\* is appended, no completion request is made, no document is written, and
\* chat neither raises nor ends with an error status for it.
C16_NoSpeechIsNotAFailure ==
  EmptyTranscriptRun =>
    /\ \A i \in 1..Len(messages) : heap[messages[i]].role # "user"
    /\ lastPayload = <<>>
    /\ NoDocument
    /\ chat.err = "none"
    /\ chat.code \in {None, 0}

PipelineOrder == <<"capture", "transcribe", "generate", "persist">>

Started(step) == \E i \in 1..Len(chat.steps) : chat.steps[i] = step

\* C17: one run starts capture, transcription, generation and persistence in
\* that order, each at most once; when transcription starts the source has
\* been closed, and it stays released whatever fails afterwards; a document
\* is written only after a user message and its reply are in the history, so
\* a run that fails in transcription or generation writes none.
C17_PipelineOrder ==
  /\ IsPrefix(chat.steps, PipelineOrder)
  /\ Started("transcribe") =>
       /\ ~chat.openAtTranscribe
       /\ mic.pa = None /\ mic.stream = None
       /\ mic.allocPA = {} /\ mic.allocStreams = {}
  /\ ~NoDocument =>
       /\ chat.steps = PipelineOrder
       /\ lastPayload # <<>>
       /\ Len(messages) >= 2
       /\ heap[messages[Len(messages) - 1]].role = "user"
       /\ heap[messages[Len(messages) - 1]].content = chat.text
       /\ heap[messages[Len(messages)]].role = "assistant"
  /\ (chat.pc = "failed" /\ ~Started("persist")) => NoDocument

\* A microphone run that failed in generation: the source released, nothing
\* written.
C17_Witness ==
  /\ srcKind = "mic"
  /\ chat.pc = "failed"
  /\ chat.steps = <<"capture", "transcribe", "generate">>
  /\ mic.handles = 1
  /\ NoDocument

\* Whether the collection is limited by a duration: chat's is on a microphone.
Bounded == IF chat.caller = "chat" THEN srcKind = "mic" ELSE chat.bounded

\* max(1, floor(d * sample_rate / chunk_size)), d in milliseconds
Wanted ==
  IF chat.duration * DefaultSampleRate >= 1000 * DefaultChunkSize
  THEN (chat.duration * DefaultSampleRate) \div (1000 * DefaultChunkSize)
  ELSE 1

\* The chunks a static buffer holds.
Available == CeilDiv(chat.fileLen, DefaultChunkSize)

\* The collection ran to its end (no device read failed).
Collected ==
  /\ Started("capture")
  /\ chat.pc # "collecting"
  /\ ~(chat.pc = "failed" /\ chat.steps = <<"capture">>)

\* C19: collection is bounded: with a duration d it stops after exactly
\* max(1, floor(d * sample_rate / chunk_size)) chunks (sooner only when the
\* source ends), without it after the chunks of the static buffer; chat
\* always passes a duration for the microphone and collects without one
\* only from a static buffer.
C19_CollectionBounded ==
  /\ chat.pc = "collecting" =>
       /\ chat.limit.bounded = Bounded
       /\ srcKind = "mic" => chat.limit.bounded
       /\ chat.chunks <= (IF srcKind = "mic" THEN Wanted ELSE Available)
       /\ Bounded => chat.chunks <= Wanted
  /\ Collected =>
       chat.chunks = (IF srcKind = "mic" THEN Wanted
                      ELSE IF Bounded THEN Min(Wanted, Available)
                      ELSE Available)

\* The microphone, collected for the default five seconds.
C19_Witness ==
  /\ chat.caller = "chat"
  /\ srcKind = "mic"
  /\ chat.pc = "captured"
  /\ chat.duration = 5000
  /\ chat.chunks = 78

InitChat == ChatInit

SpecChat == InitChat /\ [][ChatNext]_vars
====
